---- MODULE Spec2Model ----
(***************************************************************************)
(* Verification model of the Roboost mecanum firmware core (core.cpp).     *)
(*                                                                         *)
(* The module holds four specifications over one set of variables:         *)
(*   KinSpec   the pure kinematics functions calculateWheelVelocity and    *)
(*             calculateRobotVelocity applied to bounded body velocities;  *)
(*   IsrSpec   the four encoder interrupt routines;                        *)
(*   Spec      the program as the Arduino core runs it from boot: setup()  *)
(*             (FairSpec adds the progress the single control thread       *)
(*             guarantees);                                                *)
(*   LoopSpec  loop() called cycle after cycle, from the state that the    *)
(*             initialisation part of setup() leaves.                      *)
(* Real numbers are exact rationals <<numerator, denominator>>.            *)
(***************************************************************************)
EXTENDS Integers, Sequences, FiniteSets, TLC

(***************************************************************************)
(* Bounds of the model.                                                    *)
(***************************************************************************)
\* body velocity components range over -KMax/KDen .. KMax/KDen
KMax == 2
KDen == 2

(***************************************************************************)
(* Exact rational arithmetic.                                              *)
(***************************************************************************)
Abs(n) == IF n < 0 THEN -n ELSE n

RECURSIVE GCD(_, _)
GCD(a, b) == IF b = 0 THEN a ELSE GCD(b, a % b)

\* the normal form of n/d (d # 0): positive denominator, lowest terms
RNorm(n, d) ==
    LET g == GCD(Abs(n), Abs(d))
        s == IF d < 0 THEN -1 ELSE 1
    IN  <<(s * n) \div g, (s * d) \div g>>

RInt(i) == <<i, 1>>
RAdd(a, b) == RNorm(a[1] * b[2] + b[1] * a[2], a[2] * b[2])
RNeg(a) == <<-a[1], a[2]>>
RSub(a, b) == RAdd(a, RNeg(b))
RMul(a, b) == RNorm(a[1] * b[1], a[2] * b[2])
RInv(a) == RNorm(a[2], a[1])
RSign(a) == IF a[1] > 0 THEN 1 ELSE IF a[1] < 0 THEN -1 ELSE 0

\* row (a sequence of rationals) times column vector
RECURSIVE Dot(_, _)
Dot(row, v) ==
    IF row = <<>> THEN RInt(0)
    ELSE RAdd(RMul(Head(row), Head(v)), Dot(Tail(row), Tail(v)))

MatVec(m, v) == [i \in DOMAIN m |-> Dot(m[i], v)]
Scale(s, v) == [i \in DOMAIN v |-> RMul(s, v[i])]

(***************************************************************************)
(* Geometry of the MECANUM_4WHEEL configuration.                           *)
(***************************************************************************)
WHEELRADIUS == <<3, 40>>      \* 0.075
L_X == <<19, 50>>             \* 0.38
L_Y == <<8, 25>>              \* 0.32

LSum == RAdd(L_X, L_Y)

(***************************************************************************)
(* calculateWheelVelocity: wheelVelocity = forwardKinematicsModel *        *)
(* robotVelocity, then wheelVelocity *= 1 / WHEELRADIUS.                   *)
(***************************************************************************)
\* faulty variant: the rotation column has the sign pattern of the lateral column
forwardKinematicsModel_DiagonalRotation ==
    << <<RInt(1), RInt(-1), RNeg(LSum)>>,
       <<RInt(1), RInt(1),  LSum>>,
       <<RInt(1), RInt(1),  LSum>>,
       <<RInt(1), RInt(-1), RNeg(LSum)>> >>

forwardKinematicsModel ==
    << <<RInt(1), RInt(-1), RNeg(LSum)>>,
       <<RInt(1), RInt(1),  LSum>>,
       <<RInt(1), RInt(1),  RNeg(LSum)>>,
       <<RInt(1), RInt(-1), LSum>> >>

\* faulty variant: the scaling by 1 / WHEELRADIUS is left out
calculateWheelVelocity_Unscaled(robotVelocity) ==
    MatVec(forwardKinematicsModel, robotVelocity)

calculateWheelVelocity(robotVelocity) ==
    Scale(RInv(WHEELRADIUS), MatVec(forwardKinematicsModel, robotVelocity))

(***************************************************************************)
(* calculateRobotVelocity: robotVelocity = inverseKinematicsModel *        *)
(* wheelVelocity, then robotVelocity *= WHEELRADIUS / 4.                   *)
(***************************************************************************)
inverseKinematicsModel ==
    << <<RInt(1),  RInt(1), RInt(1),  RInt(1)>>,
       <<RInt(-1), RInt(1), RInt(1),  RInt(-1)>>,
       <<RNeg(RInv(LSum)), RInv(LSum), RNeg(RInv(LSum)), RInv(LSum)>> >>

\* faulty variant: the average over the four wheels divides by 2
calculateRobotVelocity_HalfScale(wheelVelocity) ==
    Scale(RMul(WHEELRADIUS, <<1, 2>>), MatVec(inverseKinematicsModel, wheelVelocity))

calculateRobotVelocity(wheelVelocity) ==
    Scale(RMul(WHEELRADIUS, <<1, 4>>), MatVec(inverseKinematicsModel, wheelVelocity))

Zero3 == <<RInt(0), RInt(0), RInt(0)>>
Zero4 == <<RInt(0), RInt(0), RInt(0), RInt(0)>>

\* wheel indices of a wheel velocity vector, in the order of the joint names
FL == 1
FR == 2
BL == 3
BR == 4

(***************************************************************************)
(* Program constants.                                                      *)
(***************************************************************************)
UINT16_MOD == 65536           \* range of the volatile uint16_t edge counters
PI == 2                       \* angles of the position test, in units of PI/2
ROTATION_STEP_MS == 5000      \* "millis() - last_rotation_step > 5000"
BOOT_DELAY_MS == 2000         \* delay(2000) after the transport is set
RETRY_DELAY_MS == 1000        \* delay(1000) after a failed initialisation call
READY_DELAY_MS == 500         \* delay(500) after the last initialisation call
LOOP_DELAY_MS == 10           \* delay(10) ending a control cycle
time_sync_interval == 1000    \* milliseconds between two time synchronisations
timeout_ms == 500             \* rmw_uros_sync_session(timeout_ms)
NANOS_PER_SEC == 1000000000   \* "stamp.nanosec %= 1000000000"
WORD == 2^16                  \* a 32-bit value is held as two 16-bit words

\* the motors M0..M3 and the code that may touch their encoder and driver
Wheels == 0..3
controller_M(i) == <<"controller_M", i>>

\* PIDMotorController controller_Mi(driver_Mi, encoder_Mi): the driver and the
\* encoder each controller is constructed with
controller_driver == [i \in Wheels |-> i]
controller_encoder == [i \in Wheels |-> i]

\* MotorControllerManager{{&controller_M0, ..., &controller_M3}}
motor_control_manager == <<0, 1, 2, 3>>

\* faulty variant: the node is created before the support structure
InitCalls_NodeFirst ==
    <<"rclc_node_init_default", "rclc_support_init", "odom_publisher",
      "joint_state_publisher", "cmd_vel_subscriber", "rclc_executor_init",
      "rclc_executor_add_subscription">>

\* the initialisation calls of setup(), in program order
InitCalls ==
    <<"rclc_support_init", "rclc_node_init_default", "odom_publisher",
      "joint_state_publisher", "cmd_vel_subscriber", "rclc_executor_init",
      "rclc_executor_add_subscription">>

\* joint_state_msg.name.data[0..3] as setup() assigns them
JointNames ==
    [i \in Wheels |->
        CASE i = 0 -> "wheel_front_left_joint"
          [] i = 1 -> "wheel_front_right_joint"
          [] i = 2 -> "wheel_back_left_joint"
          [] i = 3 -> "wheel_back_right_joint"]

(***************************************************************************)
(* Bounds of the environment: time and sensor readings.                    *)
(***************************************************************************)
\* the clock stops advancing here, milliseconds since boot: in setup() and
\* in loop()
MaxClockMs == 9000
MaxLoopClockMs == 4600
\* time an ordinary statement (serial print, driver write) may take, milliseconds
StmtTimeMs == 1
\* time a delay() may take when the task is preempted, milliseconds
LongDelayMs == 2000
\* milliseconds spent, in total, in statements and punctual delays; beyond
\* this budget they take no measurable time
MaxShortMs == 12
\* failed initialisation calls in one run
MaxRetries == 1
\* edge-counter interrupts fired in one run
MaxIsr == 2

\* cmd_vel messages one rclc_executor_spin_some may hand to the callback
MaxDeliveries == 2

\* what an encoder may read when sampled: <<angle, velocity>>
EncReadings == {<<10, 0>>, <<11, 1>>}
\* control efforts a PID law may return
Efforts == {-1, 1}

\* what the four encoders may read in one control cycle: all wheels at rest,
\* or each wheel at an angle and a velocity of its own
WheelReadings ==
    {[i \in Wheels |-> <<10, 0>>], [i \in Wheels |-> <<20 + i, 1 + i>>]}

\* the efforts the four PID laws may return in one control cycle
WheelEfforts == {[i \in Wheels |-> IF i % 2 = 0 THEN 1 ELSE -1]}

\* geometry_msgs/Twist messages a publisher may send on cmd_vel
Twist(lx, ly, lz, ax, ay, az) ==
    [linear |-> <<RInt(lx), RInt(ly), RInt(lz)>>,
     angular |-> <<RInt(ax), RInt(ay), RInt(az)>>]

TwistMessages == {Twist(1, 0, 5, 5, 5, 0), Twist(0, 1, 5, 5, 5, 1)}

\* offsets <<seconds, nanoseconds>> between the agent's epoch and the clock
EpochOffsets == {<<1700000000, 0>>, <<1700000003, 999999000>>}

(***************************************************************************)
(* State.                                                                  *)
(***************************************************************************)
VARIABLES
    k_pc,            \* kinematics harness: "in", "wheel", "robot"
    k_robotVelocity, \* argument of calculateWheelVelocity
    k_wheelVelocity, \* its result, the argument of calculateRobotVelocity
    k_result,        \* result of calculateRobotVelocity
    count_BL, count_BR, count_FL, count_FR,   \* volatile uint16_t edge counters
    isr_last,        \* the interrupt routine that ran last ("none" before any)
    isr_fired,       \* number of interrupts served
    pc,              \* position of the main context
    clock,           \* microseconds since boot
    short_ms,        \* milliseconds spent so far in statements and punctual delays
    init_step,       \* index in InitCalls of the call being attempted
    init_attempt,    \* the initialisation call made last, "" before any
    init_ok,         \* the initialisation calls that have returned RCL_RET_OK
    joint_names,     \* joint_state_msg.name
    last_time_local, \* setup()'s local "unsigned long last_time" (micros)
    last_rotation_step, \* setup()'s local, millis
    wanted_angle,    \* setup()'s local, in units of PI/2
    sampling_time,   \* setup()'s local, held in microseconds
    control,         \* setup()'s local: the effort pid_.update returned
    enc,             \* enc[i]: <<angle, velocity>> of encoder_Mi
    enc_by,          \* enc_by[i]: the code that has sampled encoder_Mi
    drv,             \* drv[i]: the effort last written to driver_Mi
    drv_by,          \* drv_by[i]: the code that has commanded driver_Mi
    pid_args,        \* <<target, measured, dt>> of the latest pid_.update call
    pid_calls,       \* whether pid_.update has been called
    pid_call_clock,  \* clock at the latest pid_.update call (at loop entry before)
    pid_elapsed,     \* time between the latest pid_.update call and the one before
    update_calls,    \* robot_controller.update() calls of the current cycle
    latest_command,  \* VelocityController: the stored commanded body velocity
    robot_velocity,  \* VelocityController: the achieved body velocity
    target,          \* target[i]: velocity target of controller_Mi
    last_delivered,  \* <<message of the latest callback>>, <<>> before any
    update_command,  \* the command the latest update() worked on
    spin_msgs,       \* the messages the current cycle's spin_some delivered
    last_time,       \* global "unsigned long last_time", millis
    dt,              \* loop()'s local dt, held in milliseconds
    last_time_sync_ms,  \* millis of the latest successful synchronisation
    last_time_sync_ns,  \* micros() * 1000 of it, 32-bit: <<high word, low word>>
    synced_time_ms,  \* int64_t epoch milliseconds: <<seconds, milliseconds>>
    synced_time_ns,  \* int64_t epoch nanoseconds: <<seconds, nanoseconds>>
    sync_attempted,  \* whether the current cycle called rmw_uros_sync_session
    sync_ok,         \* whether it found the epoch synchronised
    sync_clock,      \* clock of the latest successful synchronisation, 0 before
    odom_msg,        \* the fields of odom_msg that loop() writes
    joint_state_msg, \* the fields of joint_state_msg that loop() writes
    cycle_log        \* update() calls and publications of the current cycle

kinVars == <<k_pc, k_robotVelocity, k_wheelVelocity, k_result>>
countVars == <<count_BL, count_BR, count_FL, count_FR>>
isrVars == <<countVars, isr_last, isr_fired>>
initVars == <<init_step, init_attempt, init_ok>>
setupVars == <<initVars, joint_names, last_time_local, last_rotation_step,
               wanted_angle, sampling_time, control>>
motorVars == <<enc, enc_by, drv, drv_by>>
pidVars == <<pid_args, pid_calls, pid_call_clock, pid_elapsed>>
velVars == <<latest_command, robot_velocity, target, last_delivered,
             update_command, spin_msgs>>
syncVars == <<last_time_sync_ms, last_time_sync_ns, synced_time_ms, synced_time_ns,
              sync_attempted, sync_ok, sync_clock>>
loopVars == <<velVars, last_time, dt, syncVars, odom_msg, joint_state_msg, cycle_log>>
mainVars == <<pc, clock, short_ms, setupVars, motorVars, pidVars, update_calls,
              loopVars>>

vars == <<kinVars, isrVars, mainVars>>

\* the state of the main context before main() calls setup()
MainIdle ==
    /\ pc = "boot"
    /\ clock = 0
    /\ short_ms = 0
    /\ init_step = 1
    /\ init_attempt = ""
    /\ init_ok = {}
    /\ joint_names = [i \in Wheels |-> ""]
    /\ last_time_local = 0
    /\ last_rotation_step = 0
    /\ wanted_angle = 0
    /\ sampling_time = 0
    /\ control = 0
    /\ enc = [i \in Wheels |-> <<0, 0>>]
    /\ enc_by = [i \in Wheels |-> {}]
    /\ drv = [i \in Wheels |-> 0]
    /\ drv_by = [i \in Wheels |-> {}]
    /\ pid_args = <<0, 0, 0>>
    /\ pid_calls = FALSE
    /\ pid_call_clock = 0
    /\ pid_elapsed = 0
    /\ update_calls = 0
    /\ latest_command = Zero3
    /\ robot_velocity = Zero3
    /\ target = [i \in Wheels |-> RInt(0)]
    /\ last_delivered = <<>>
    /\ update_command = Zero3
    /\ spin_msgs = <<>>
    /\ last_time = 0
    /\ dt = 0
    /\ last_time_sync_ms = 0
    /\ last_time_sync_ns = <<0, 0>>
    /\ synced_time_ms = <<0, 0>>
    /\ synced_time_ns = <<0, 0>>
    /\ sync_attempted = FALSE
    /\ sync_ok = FALSE
    /\ sync_clock = 0
    /\ odom_msg = [twist |-> Zero3, sec |-> 0, nanosec |-> 0]
    /\ joint_state_msg =
          [position |-> [i \in Wheels |-> 0], velocity |-> [i \in Wheels |-> 0],
           sec |-> 0, nanosec |-> <<0, 0>>]
    /\ cycle_log = <<>>

CountersIdle ==
    /\ count_BL = 0 /\ count_BR = 0 /\ count_FL = 0 /\ count_FR = 0
    /\ isr_last = "none"
    /\ isr_fired = 0

KinIdle ==
    /\ k_pc = "in"
    /\ k_robotVelocity = Zero3
    /\ k_wheelVelocity = Zero4
    /\ k_result = Zero3

\* the commands the sign conventions are stated for
PureForward(v) == RSign(v[1]) = 1 /\ v[2] = RInt(0) /\ v[3] = RInt(0)

PureRotation(v) == v[1] = RInt(0) /\ v[2] = RInt(0) /\ RSign(v[3]) = 1

(***************************************************************************)
(* KinSpec: the kinematics functions on bounded inputs.                    *)
(***************************************************************************)
KinValues == {RNorm(n, KDen) : n \in -KMax..KMax}

KinStart ==
    /\ k_pc = "in"
    /\ k_robotVelocity \in KinValues \X KinValues \X KinValues
    /\ k_wheelVelocity = Zero4
    /\ k_result = Zero3

KinInit == KinStart /\ CountersIdle /\ MainIdle

KinWheel ==
    /\ k_pc = "in"
    /\ k_wheelVelocity' = calculateWheelVelocity(k_robotVelocity)
    /\ k_pc' = "wheel"
    /\ UNCHANGED <<k_robotVelocity, k_result, mainVars>>
    /\ UNCHANGED <<countVars, isr_last, isr_fired>>

KinRobot ==
    /\ k_pc = "wheel"
    /\ k_result' = calculateRobotVelocity(k_wheelVelocity)
    /\ k_pc' = "robot"
    /\ UNCHANGED <<k_robotVelocity, k_wheelVelocity, mainVars>>
    /\ UNCHANGED <<countVars, isr_last, isr_fired>>

KinNext == KinWheel \/ KinRobot

KinSpec == KinInit /\ [][KinNext]_vars

(***************************************************************************)
(* IsrSpec: the encoder interrupt routines, served in any order while the  *)
(* main context computes kinematics.  The counters start at 0 or one edge  *)
(* before the uint16_t wraps.                                              *)
(***************************************************************************)
\* faulty variant: the routine of the back-left encoder counts on the back-right counter
function_ISR_EC_BL_WrongCounter ==
    /\ count_BR' = (count_BR + 1) % UINT16_MOD
    /\ UNCHANGED <<count_BL, count_FL, count_FR>>

function_ISR_EC_BL ==
    /\ count_BL' = (count_BL + 1) % UINT16_MOD
    /\ UNCHANGED <<count_BR, count_FL, count_FR>>

function_ISR_EC_BR ==
    /\ count_BR' = (count_BR + 1) % UINT16_MOD
    /\ UNCHANGED <<count_BL, count_FL, count_FR>>

function_ISR_EC_FL ==
    /\ count_FL' = (count_FL + 1) % UINT16_MOD
    /\ UNCHANGED <<count_BL, count_BR, count_FR>>

function_ISR_EC_FR ==
    /\ count_FR' = (count_FR + 1) % UINT16_MOD
    /\ UNCHANGED <<count_BL, count_BR, count_FL>>

\* an edge on encoder output A of one wheel: the hardware runs its routine
Interrupt(name, routine) ==
    /\ isr_fired < MaxIsr
    /\ routine
    /\ isr_last' = name
    /\ isr_fired' = isr_fired + 1
    /\ UNCHANGED <<kinVars, mainVars>>

IsrBL == Interrupt("BL", function_ISR_EC_BL)
IsrBR == Interrupt("BR", function_ISR_EC_BR)
IsrFL == Interrupt("FL", function_ISR_EC_FL)
IsrFR == Interrupt("FR", function_ISR_EC_FR)

CounterStart == {0, UINT16_MOD - 1}

IsrInit ==
    /\ count_BL \in CounterStart /\ count_BR \in CounterStart
    /\ count_FL \in CounterStart /\ count_FR \in CounterStart
    /\ isr_last = "none"
    /\ isr_fired = 0
    /\ KinStart
    /\ PureForward(k_robotVelocity)
    /\ MainIdle

IsrNext == IsrBL \/ IsrBR \/ IsrFL \/ IsrFR \/ KinWheel \/ KinRobot

IsrSpec == IsrInit /\ [][IsrNext]_vars

(***************************************************************************)
(* Time.  micros() and millis() read the same clock; in the runs modelled  *)
(* the clock stays far below 2^32 microseconds, so unsigned differences of *)
(* two readings are plain differences.                                     *)
(***************************************************************************)
micros == clock
millis == clock \div 1000

\* ms milliseconds pass; a long wait is cut off by the end of the clock, a
\* short one by the budget of short waits
ClockEnd ==
    IF pc \in {"l_sync", "l_spin", "l_update", "l_odom", "l_joint", "l_delay"}
    THEN MaxLoopClockMs * 1000 ELSE MaxClockMs * 1000

Long(ms) ==
    /\ clock' = IF clock + ms * 1000 <= ClockEnd THEN clock + ms * 1000 ELSE clock
    /\ UNCHANGED short_ms

Short(ms) ==
    IF short_ms + ms <= MaxShortMs /\ clock + ms * 1000 <= ClockEnd
    THEN clock' = clock + ms * 1000 /\ short_ms' = short_ms + ms
    ELSE UNCHANGED <<clock, short_ms, short_ms>>

\* a statement takes no measurable time or StmtTimeMs
Statement == Short(0) \/ Short(StmtTimeMs)

\* delay(ms) returns on time or, preempted, after LongDelayMs
Delay(ms) == Short(ms) \/ Long(LongDelayMs)

NoTime == UNCHANGED <<clock, short_ms, short_ms>>

(***************************************************************************)
(* setup(): transport and the initialisation calls, each retried until it  *)
(* returns RCL_RET_OK.                                                     *)
(***************************************************************************)
SetupBoot ==
    /\ pc = "boot"
    /\ Long(BOOT_DELAY_MS)
    /\ init_step' = 1
    /\ UNCHANGED <<init_attempt, init_ok>>
    /\ pc' = "init"
    /\ UNCHANGED <<joint_names, last_time_local, last_rotation_step, wanted_angle,
                   sampling_time, control, motorVars, pidVars, update_calls, loopVars>>
    /\ UNCHANGED <<kinVars, isrVars>>

\* the call at init_step returns RCL_RET_OK: the while loop is left
InitCallOk ==
    /\ pc = "init"
    /\ init_attempt' = InitCalls[init_step]
    /\ init_ok' = init_ok \cup {InitCalls[init_step]}
    /\ IF init_step < Len(InitCalls)
         THEN init_step' = init_step + 1 /\ pc' = "init"
         ELSE init_step' = init_step /\ pc' = "ready"
    /\ UNCHANGED <<clock, short_ms, joint_names, last_time_local, last_rotation_step,
                   wanted_angle, sampling_time, control, motorVars, pidVars,
                   update_calls, loopVars>>
    /\ UNCHANGED <<kinVars, isrVars>>

\* the call at init_step fails: print, delay(1000), call again
InitCallFail ==
    /\ pc = "init"
    /\ clock < (BOOT_DELAY_MS + MaxRetries * RETRY_DELAY_MS) * 1000
    /\ Long(RETRY_DELAY_MS)
    /\ init_attempt' = InitCalls[init_step]
    /\ UNCHANGED <<pc, init_step, init_ok, joint_names, last_time_local,
                   last_rotation_step, wanted_angle, sampling_time, control,
                   motorVars, pidVars, update_calls, loopVars>>
    /\ UNCHANGED <<kinVars, isrVars>>

\* delay(500), the LED, and the constant parts of odom_msg and joint_state_msg
SetupMessages ==
    /\ pc = "ready"
    /\ Long(READY_DELAY_MS)
    /\ joint_names' = JointNames
    /\ pc' = "test_entry"
    /\ UNCHANGED <<initVars, last_time_local, last_rotation_step, wanted_angle,
                   sampling_time, control, motorVars, pidVars, update_calls, loopVars>>
    /\ UNCHANGED <<kinVars, isrVars>>

(***************************************************************************)
(* setup(): the position test, "while (true)".                             *)
(***************************************************************************)
\* PIDController pid_(...); last_time = micros(); last_rotation_step = millis()
TestEntry ==
    /\ pc = "test_entry"
    /\ last_time_local' = micros
    /\ last_rotation_step' = millis
    /\ wanted_angle' = 0
    /\ pid_call_clock' = clock
    /\ pc' = "t_encoder"
    /\ UNCHANGED <<clock, short_ms, initVars, joint_names, sampling_time, control,
                   motorVars, pid_args, pid_calls, pid_elapsed, update_calls, loopVars>>
    /\ UNCHANGED <<kinVars, isrVars>>

\* encoder_M0.update(), called by setup() itself
TestEncoder ==
    /\ pc = "t_encoder"
    /\ \E r \in EncReadings : enc' = [enc EXCEPT ![0] = r]
    /\ enc_by' = [enc_by EXCEPT ![0] = @ \cup {"setup"}]
    /\ Statement
    /\ pc' = "t_sampling"
    /\ UNCHANGED <<setupVars, drv, drv_by, pidVars, update_calls, loopVars>>
    /\ UNCHANGED <<kinVars, isrVars>>

\* (micros() - last_time) / 1000000.0, held in microseconds
SamplingTime == micros - last_time_local

\* double sampling_time = ...; the two serial prints follow the reading
TestSampling ==
    /\ pc = "t_sampling"
    /\ sampling_time' = SamplingTime
    /\ Statement
    /\ pc' = "t_pid"
    /\ UNCHANGED <<initVars, joint_names, last_time_local, last_rotation_step,
                   wanted_angle, control, motorVars, pidVars, update_calls, loopVars>>
    /\ UNCHANGED <<kinVars, isrVars>>

\* the arguments of pid_.update(PI, encoder_M0.get_angle(), sampling_time)
PidArguments == <<PI, enc[0][1], sampling_time>>

\* double control = pid_.update(...)
TestPid ==
    /\ pc = "t_pid"
    /\ pid_args' = PidArguments
    /\ control' \in Efforts
    /\ pid_calls' = TRUE
    /\ pid_elapsed' = clock - pid_call_clock
    /\ pid_call_clock' = clock
    /\ pc' = "t_step"
    /\ UNCHANGED <<clock, short_ms, initVars, joint_names, last_time_local,
                   last_rotation_step, wanted_angle, sampling_time, motorVars,
                   update_calls, loopVars>>
    /\ UNCHANGED <<kinVars, isrVars>>

\* if (millis() - last_rotation_step > 5000) { ... wanted_angle += PI / 2; }
TestRotationStep ==
    /\ pc = "t_step"
    /\ IF millis - last_rotation_step > ROTATION_STEP_MS
         THEN /\ last_rotation_step' = millis
              /\ wanted_angle' = wanted_angle + 1
         ELSE UNCHANGED <<last_rotation_step, wanted_angle>>
    /\ pc' = "t_drive"
    /\ UNCHANGED <<clock, short_ms, initVars, joint_names, last_time_local, sampling_time,
                   control, motorVars, pidVars, update_calls, loopVars>>
    /\ UNCHANGED <<kinVars, isrVars>>

\* driver_M0.set_motor_control(control), called by setup() itself
TestDrive ==
    /\ pc = "t_drive"
    /\ drv' = [drv EXCEPT ![0] = control]
    /\ drv_by' = [drv_by EXCEPT ![0] = @ \cup {"setup"}]
    /\ Statement
    /\ pc' = "t_last"
    /\ UNCHANGED <<setupVars, enc, enc_by, pidVars, update_calls, loopVars>>
    /\ UNCHANGED <<kinVars, isrVars>>

\* last_time = micros(); delay(10);
TestLastTime ==
    /\ pc = "t_last"
    /\ last_time_local' = micros
    /\ Delay(LOOP_DELAY_MS)
    /\ pc' = "t_encoder"
    /\ UNCHANGED <<initVars, joint_names, last_rotation_step, wanted_angle,
                   sampling_time, control, motorVars, pidVars, update_calls, loopVars>>
    /\ UNCHANGED <<kinVars, isrVars>>

Init == KinIdle /\ CountersIdle /\ MainIdle

Next ==
    \/ SetupBoot \/ InitCallOk \/ InitCallFail \/ SetupMessages
    \/ TestEntry \/ TestEncoder \/ TestSampling \/ TestPid
    \/ TestRotationStep \/ TestDrive \/ TestLastTime

Spec == Init /\ [][Next]_vars

\* the control thread is never suspended for ever: it always takes its next step
FairSpec == Spec /\ WF_vars(Next)

(***************************************************************************)
(* 32-bit unsigned arithmetic on <<high word, low word>> (unsigned long    *)
(* and uint32_t of the target), and the int64_t epoch values, held as      *)
(* <<seconds, remainder>>.                                                 *)
(***************************************************************************)
\* the 32-bit value of n, 0 <= n < 2^31
U32(n) == <<n \div WORD, n % WORD>>

U32Add(a, b) ==
    LET lo == a[2] + b[2]
    IN  <<(a[1] + b[1] + lo \div WORD) % WORD, lo % WORD>>

U32Sub(a, b) ==
    LET borrow == IF a[2] < b[2] THEN 1 ELSE 0
    IN  <<(a[1] - b[1] - borrow + WORD) % WORD, (a[2] - b[2] + WORD) % WORD>>

\* a * k modulo 2^32, 0 <= k < 2^15
U32Times(a, k) ==
    LET lo == a[2] * k
    IN  <<(a[1] * k + lo \div WORD) % WORD, lo % WORD>>

\* a * b modulo 2^32, byte by byte of b
U32Mul(a, b) ==
    LET Step(acc, byte) == U32Add(U32Times(acc, 256), U32Times(a, byte))
    IN  Step(Step(Step(U32Times(a, b[1] \div 256), b[1] % 256), b[2] \div 256),
             b[2] % 256)

U32Less(a, b) == a[1] < b[1] \/ (a[1] = b[1] /\ a[2] < b[2])

\* a % m as an integer, for a modulus 2^30 <= m < 2^31
RECURSIVE U32Mod(_, _)
U32Mod(a, m) ==
    IF U32Less(a, U32(m)) THEN a[1] * WORD + a[2] ELSE U32Mod(U32Sub(a, U32(m)), m)

\* the low 32 bits of the int64_t holding sec * 10^9 + ns
NanosLow32(t) == U32Add(U32Mul(U32(t[1]), U32(NANOS_PER_SEC)), U32(t[2]))

\* rmw_uros_epoch_nanos() and rmw_uros_epoch_millis() of a session whose epoch
\* is off ahead of the clock
EpochNanos(off, clk) ==
    LET ns == off[2] + (clk % 1000000) * 1000
    IN  <<off[1] + clk \div 1000000 + ns \div NANOS_PER_SEC, ns % NANOS_PER_SEC>>

EpochMillis(off, clk) ==
    LET t == EpochNanos(off, clk) IN <<t[1], t[2] \div 1000000>>

(***************************************************************************)
(* loop(): time synchronisation.                                           *)
(***************************************************************************)
\* if (millis() - last_time_sync_ms > time_sync_interval)
SyncDue == millis - last_time_sync_ms > time_sync_interval

\* rmw_uros_sync_session(timeout_ms) answered: rmw_uros_epoch_synchronized()
SyncSucceeds ==
    /\ NoTime
    /\ \E off \in EpochOffsets :
          /\ synced_time_ms' = EpochMillis(off, clock')
          /\ synced_time_ns' = EpochNanos(off, clock')
    /\ last_time_sync_ms' = clock' \div 1000
    /\ last_time_sync_ns' = U32Times(U32(clock'), 1000)
    /\ sync_ok' = TRUE
    /\ sync_clock' = clock'

\* faulty variant: a timed-out attempt restarts the interval
SyncFails_RestartsInterval ==
    /\ Long(timeout_ms)
    /\ sync_ok' = FALSE
    /\ last_time_sync_ms' = clock' \div 1000
    /\ UNCHANGED <<last_time_sync_ns, synced_time_ms, synced_time_ns, sync_clock>>

\* the session timed out
SyncFails ==
    /\ Long(timeout_ms)
    /\ sync_ok' = FALSE
    /\ UNCHANGED <<last_time_sync_ms, last_time_sync_ns, synced_time_ms,
                   synced_time_ns, sync_clock>>

LoopSync ==
    /\ pc = "l_sync"
    /\ IF SyncDue
         THEN sync_attempted' = TRUE /\ (SyncSucceeds \/ SyncFails)
         ELSE /\ sync_attempted' = FALSE
              /\ sync_ok' = FALSE
              /\ NoTime
              /\ UNCHANGED <<last_time_sync_ms, last_time_sync_ns, synced_time_ms,
                             synced_time_ns, sync_clock>>
    /\ pc' = "l_spin"
    /\ UNCHANGED <<setupVars, motorVars, pidVars, update_calls, velVars, last_time,
                   dt, odom_msg, joint_state_msg, cycle_log>>
    /\ UNCHANGED <<kinVars, isrVars>>

(***************************************************************************)
(* loop(): rclc_executor_spin_some and the cmd_vel callback.               *)
(***************************************************************************)
\* faulty variant: the third component is read from angular.x
cmd_vel_subscription_callback_AngularX(msg) ==
    <<msg.linear[1], msg.linear[2], msg.angular[1]>>

\* cmd(0) = linear.x; cmd(1) = linear.y; cmd(2) = angular.z: the argument of
\* robot_controller.set_latest_command
cmd_vel_subscription_callback(msg) ==
    <<msg.linear[1], msg.linear[2], msg.angular[3]>>

\* VelocityController::set_latest_command: the stored command is overwritten
set_latest_command(cmd) == latest_command' = cmd

\* faulty variant: the callback runs on a thread of its own, at any position of
\* the cycle
ExecutorContext_OwnThread == {"l_spin", "l_update", "l_odom", "l_joint"}

\* the positions of loop() at which the executor runs: the callback is
\* registered with the executor only, and only rclc_executor_spin_some spins it
ExecutorContext == {"l_spin"}

\* the executor takes a message and runs the callback on it
LoopSpinDeliver ==
    /\ pc \in ExecutorContext
    /\ Len(spin_msgs) < MaxDeliveries
    /\ \E msg \in TwistMessages :
          /\ set_latest_command(cmd_vel_subscription_callback(msg))
          /\ last_delivered' = <<msg>>
          /\ spin_msgs' = Append(spin_msgs, msg)
    /\ NoTime
    /\ UNCHANGED <<pc, setupVars, motorVars, pidVars, update_calls, robot_velocity,
                   target, update_command, last_time, dt, syncVars, odom_msg,
                   joint_state_msg, cycle_log>>
    /\ UNCHANGED <<kinVars, isrVars>>

\* rclc_executor_spin_some returns
LoopSpinReturn ==
    /\ pc = "l_spin"
    /\ NoTime
    /\ pc' = "l_update"
    /\ UNCHANGED <<setupVars, motorVars, pidVars, update_calls, loopVars>>
    /\ UNCHANGED <<kinVars, isrVars>>

(***************************************************************************)
(* loop(): robot_controller.update().  The velocity controller computes    *)
(* the wheel targets of the stored command, hands target k to the k-th     *)
(* controller of the manager, each controller samples its encoder and      *)
(* commands its driver, and the measured wheel velocities give the         *)
(* achieved body velocity.                                                 *)
(***************************************************************************)
VelocityController_update ==
    \E reading \in WheelReadings, effort \in WheelEfforts :
        LET wheel_targets == calculateWheelVelocity(latest_command)
            measured == [k \in 1..4 |->
                RInt(reading[controller_encoder[motor_control_manager[k]]][2])]
        IN  /\ update_command' = latest_command
            /\ target' = [c \in Wheels |->
                  wheel_targets[CHOOSE k \in 1..4 : motor_control_manager[k] = c]]
            /\ enc' = [e \in Wheels |-> reading[e]]
            /\ enc_by' = [e \in Wheels |->
                  enc_by[e] \cup {controller_M(c) : c \in {x \in Wheels :
                                                  controller_encoder[x] = e}}]
            /\ drv' = [d \in Wheels |-> effort[d]]
            /\ drv_by' = [d \in Wheels |->
                  drv_by[d] \cup {controller_M(c) : c \in {x \in Wheels :
                                                  controller_driver[x] = d}}]
            /\ robot_velocity' = calculateRobotVelocity(measured)

LoopUpdate ==
    /\ pc = "l_update"
    /\ VelocityController_update
    /\ update_calls' = update_calls + 1
    /\ cycle_log' = Append(cycle_log, <<"update">>)
    /\ NoTime
    /\ pc' = "l_odom"
    /\ UNCHANGED <<setupVars, pidVars, latest_command, last_delivered, spin_msgs,
                   last_time, dt, syncVars, odom_msg, joint_state_msg>>
    /\ UNCHANGED <<kinVars, isrVars>>

(***************************************************************************)
(* loop(): odometry.  The pose integral (sines and cosines of the heading) *)
(* is left out; dt, the time it integrates over, is kept.                  *)
(***************************************************************************)
\* faulty variant: linear.x and linear.y are exchanged
OdomTwist_Swapped == <<robot_velocity[2], robot_velocity[1], robot_velocity[3]>>

\* odom_msg.twist.twist.linear.x, .linear.y, .angular.z
OdomTwist == <<robot_velocity[1], robot_velocity[2], robot_velocity[3]>>

\* (synced_time_ms + millis() - last_time_sync_ms) / 1000, in int64_t
OdomStampSec ==
    synced_time_ms[1] + (synced_time_ms[2] + millis - last_time_sync_ms) \div 1000

\* faulty variant: the remainder is taken modulo 2 * 10^9
OdomStampNanosec_WrongModulus ==
    U32Mod(U32Add(NanosLow32(synced_time_ns),
                  U32Sub(U32Times(U32(micros), 1000), last_time_sync_ns)),
           2 * NANOS_PER_SEC)

\* synced_time_ns + (micros() * 1000 - last_time_sync_ns) stored in the
\* uint32_t nanosec, then nanosec %= 1000000000
OdomStampNanosec ==
    U32Mod(U32Add(NanosLow32(synced_time_ns),
                  U32Sub(U32Times(U32(micros), 1000), last_time_sync_ns)),
           NANOS_PER_SEC)

LoopOdom ==
    /\ pc = "l_odom"
    /\ dt' = millis - last_time
    /\ last_time' = millis
    /\ odom_msg' = [twist |-> OdomTwist, sec |-> OdomStampSec,
                     nanosec |-> OdomStampNanosec]
    /\ cycle_log' = Append(cycle_log, <<"odom", odom_msg'>>)
    /\ NoTime
    /\ pc' = "l_joint"
    /\ UNCHANGED <<setupVars, motorVars, pidVars, update_calls, velVars, syncVars,
                   joint_state_msg>>
    /\ UNCHANGED <<kinVars, isrVars>>

(***************************************************************************)
(* loop(): joint states.                                                   *)
(***************************************************************************)
\* faulty variant: entries 2 and 3 both read encoder_M2
JointStateEncoder_Repeated == [i \in Wheels |-> IF i = 3 THEN 2 ELSE i]

\* the encoder whose angle and velocity go to position.data[i], velocity.data[i]
JointStateEncoder == [i \in Wheels |-> i]

LoopJoint ==
    /\ pc = "l_joint"
    /\ joint_state_msg' =
          [position |-> [i \in Wheels |-> enc[JointStateEncoder[i]][1]],
           velocity |-> [i \in Wheels |-> enc[JointStateEncoder[i]][2]],
           sec |-> synced_time_ms[1],
           nanosec |-> NanosLow32(synced_time_ns)]
    /\ cycle_log' = Append(cycle_log, <<"joint_state", joint_state_msg'>>)
    /\ NoTime
    /\ pc' = "l_delay"
    /\ UNCHANGED <<setupVars, motorVars, pidVars, update_calls, velVars, last_time,
                   dt, syncVars, odom_msg>>
    /\ UNCHANGED <<kinVars, isrVars>>

\* delay(10); loop() returns and is called again
LoopDelay ==
    /\ pc = "l_delay"
    /\ Delay(LOOP_DELAY_MS)
    /\ cycle_log' = <<>>
    /\ spin_msgs' = <<>>
    /\ update_calls' = 0
    /\ pc' = "l_sync"
    /\ UNCHANGED <<setupVars, motorVars, pidVars, latest_command, robot_velocity,
                   target, last_delivered, update_command, last_time, dt, syncVars,
                   odom_msg, joint_state_msg>>
    /\ UNCHANGED <<kinVars, isrVars>>

(***************************************************************************)
(* LoopSpec: loop() from the state the initialisation of setup() leaves:   *)
(* the globals at their initial values, the message names assigned, the    *)
(* clock at the end of the start-up delays.                                *)
(***************************************************************************)
\* the clock at the first call of loop(): setup() has spent its two delays
LoopEntryClock == (BOOT_DELAY_MS + READY_DELAY_MS) * 1000

LoopInit ==
    /\ KinIdle
    /\ CountersIdle
    /\ pc = "l_sync"
    /\ clock = LoopEntryClock
    /\ short_ms = 0
    /\ init_step = Len(InitCalls)
    /\ init_attempt = InitCalls[Len(InitCalls)]
    /\ init_ok = {InitCalls[k] : k \in 1..Len(InitCalls)}
    /\ joint_names = JointNames
    /\ last_time_local = 0
    /\ last_rotation_step = 0
    /\ wanted_angle = 0
    /\ sampling_time = 0
    /\ control = 0
    /\ enc = [i \in Wheels |-> <<0, 0>>]
    /\ enc_by = [i \in Wheels |-> {}]
    /\ drv = [i \in Wheels |-> 0]
    /\ drv_by = [i \in Wheels |-> {}]
    /\ pid_args = <<0, 0, 0>>
    /\ pid_calls = FALSE
    /\ pid_call_clock = 0
    /\ pid_elapsed = 0
    /\ update_calls = 0
    /\ latest_command = Zero3
    /\ robot_velocity = Zero3
    /\ target = [i \in Wheels |-> RInt(0)]
    /\ last_delivered = <<>>
    /\ update_command = Zero3
    /\ spin_msgs = <<>>
    /\ last_time = 0
    /\ dt = 0
    /\ last_time_sync_ms = 0
    /\ last_time_sync_ns = <<0, 0>>
    /\ synced_time_ms = <<0, 0>>
    /\ synced_time_ns = <<0, 0>>
    /\ sync_attempted = FALSE
    /\ sync_ok = FALSE
    /\ sync_clock = 0
    /\ odom_msg = [twist |-> Zero3, sec |-> 0, nanosec |-> 0]
    /\ joint_state_msg =
          [position |-> [i \in Wheels |-> 0], velocity |-> [i \in Wheels |-> 0],
           sec |-> 0, nanosec |-> <<0, 0>>]
    /\ cycle_log = <<>>

LoopNext ==
    \/ LoopSync \/ LoopSpinDeliver \/ LoopSpinReturn \/ LoopUpdate
    \/ LoopOdom \/ LoopJoint \/ LoopDelay

LoopSpec == LoopInit /\ [][LoopNext]_vars

(***************************************************************************)
(* C2: for every body velocity, calculateRobotVelocity applied to          *)
(* calculateWheelVelocity of it gives the body velocity back.              *)
(***************************************************************************)
C2_RoundTrip == k_pc = "robot" => k_result = k_robotVelocity

C2_Witness ==
    /\ k_pc = "robot"
    /\ k_robotVelocity = <<RInt(1), RNorm(-1, 2), RNorm(1, 2)>>
    /\ k_result = k_robotVelocity

(***************************************************************************)
(* C3 as stated: under a pure rotation (w > 0, vx = vy = 0) front-left and *)
(* back-right share one sign and front-right and back-left the opposite.   *)
(***************************************************************************)
C3_DiagonalSigns ==
    (k_pc = "wheel" /\ PureRotation(k_robotVelocity)) =>
        /\ RSign(k_wheelVelocity[FL]) = RSign(k_wheelVelocity[BR])
        /\ RSign(k_wheelVelocity[FR]) = RSign(k_wheelVelocity[BL])
        /\ RSign(k_wheelVelocity[FL]) = -RSign(k_wheelVelocity[FR])
        /\ RSign(k_wheelVelocity[FL]) # 0

(***************************************************************************)
(* C3 amended: under a pure rotation (w > 0, vx = vy = 0) the two left     *)
(* wheels (front-left, back-left) are negative and equal, the two right    *)
(* wheels (front-right, back-right) are positive and equal, of magnitude   *)
(* (L_X + L_Y) * w / WHEELRADIUS.                                          *)
(***************************************************************************)
C3_SideSigns ==
    (k_pc = "wheel" /\ PureRotation(k_robotVelocity)) =>
        LET m == RMul(RMul(LSum, k_robotVelocity[3]), RInv(WHEELRADIUS))
        IN  /\ k_wheelVelocity[FL] = RNeg(m)
            /\ k_wheelVelocity[BL] = RNeg(m)
            /\ k_wheelVelocity[FR] = m
            /\ k_wheelVelocity[BR] = m
            /\ RSign(m) = 1

C3_Witness ==
    /\ k_pc = "wheel"
    /\ k_robotVelocity = <<RInt(0), RInt(0), RInt(1)>>
    /\ k_wheelVelocity = <<RNorm(-28, 3), RNorm(28, 3), RNorm(-28, 3), RNorm(28, 3)>>

(***************************************************************************)
(* C4: a pure forward command (vx > 0, vy = w = 0) gives four identical    *)
(* positive wheel velocities vx / WHEELRADIUS, and calculateRobotVelocity  *)
(* of them is (vx, 0, 0).                                                  *)
(***************************************************************************)
C4_PureForward ==
    (k_pc # "in" /\ PureForward(k_robotVelocity)) =>
        /\ \A i \in 1..4 :
              /\ k_wheelVelocity[i] = RMul(k_robotVelocity[1], RInv(WHEELRADIUS))
              /\ RSign(k_wheelVelocity[i]) = 1
        /\ k_pc = "robot" => k_result = <<k_robotVelocity[1], RInt(0), RInt(0)>>

\* vx = 1.0: every wheel turns at 1.0 / 0.075 = 40/3 rad/s
C4_Witness ==
    /\ k_pc = "robot"
    /\ k_robotVelocity = <<RInt(1), RInt(0), RInt(0)>>
    /\ k_wheelVelocity = <<RNorm(40, 3), RNorm(40, 3), RNorm(40, 3), RNorm(40, 3)>>
    /\ k_result = <<RInt(1), RInt(0), RInt(0)>>

(***************************************************************************)
(* C9: each encoder interrupt routine adds one, modulo 2^16, to the        *)
(* counter of its own wheel and changes neither the other three counters   *)
(* nor any state of the main context, whatever the interleaving.           *)
(***************************************************************************)
IsrEffect(name, own, own_next, others) ==
    (isr_fired' # isr_fired /\ isr_last' = name) =>
        /\ own_next = (own + 1) % UINT16_MOD
        /\ own_next \in 0..(UINT16_MOD - 1)
        /\ others
        /\ UNCHANGED <<kinVars, mainVars>>

C9_IsrIncrementsOwnCounter ==
    [][ /\ IsrEffect("BL", count_BL, count_BL', UNCHANGED <<count_BR, count_FL, count_FR>>)
        /\ IsrEffect("BR", count_BR, count_BR', UNCHANGED <<count_BL, count_FL, count_FR>>)
        /\ IsrEffect("FL", count_FL, count_FL', UNCHANGED <<count_BL, count_BR, count_FR>>)
        /\ IsrEffect("FR", count_FR, count_FR', UNCHANGED <<count_BL, count_BR, count_FL>>)
      ]_vars

\* the back-left counter has wrapped from 65535 to 0 between two steps of the
\* main context, and the back-right routine has counted one edge
C9_Witness ==
    /\ isr_fired = 2
    /\ isr_last = "BL"
    /\ count_BL = 0
    /\ count_BR = 1
    /\ count_FL = UINT16_MOD - 1
    /\ count_FR = 0
    /\ k_pc = "wheel"

(***************************************************************************)
(* C1 as stated: once every initialisation call of setup() has returned    *)
(* RCL_RET_OK, setup() returns and robot_controller.update() is called     *)
(* again and again.                                                        *)
(***************************************************************************)
InitComplete == pc \notin {"boot", "init"}

InLoop == pc \in {"l_sync", "l_spin", "l_update", "l_odom", "l_joint", "l_delay"}

C1_UpdateInfinitelyOften ==
    [](InitComplete => (<>InLoop /\ []<>(update_calls > 0)))

(***************************************************************************)
(* C5: the stored command is the (linear.x, linear.y, angular.z) of the    *)
(* message delivered last, and every robot_controller.update() works on    *)
(* the command of the message delivered last: of the last of several       *)
(* delivered before it, and of a message of an earlier cycle when none has *)
(* been delivered since.                                                   *)
(***************************************************************************)
CommandOf(delivered) ==
    IF delivered = <<>> THEN Zero3
    ELSE <<delivered[1].linear[1], delivered[1].linear[2], delivered[1].angular[3]>>

UpdateDone == pc \in {"l_odom", "l_joint", "l_delay"}

C5_LastWriteWins ==
    /\ latest_command = CommandOf(last_delivered)
    /\ UpdateDone => update_command = CommandOf(last_delivered)
    /\ (UpdateDone /\ spin_msgs # <<>>) =>
          update_command = CommandOf(<<spin_msgs[Len(spin_msgs)]>>)

\* two different messages were delivered before this update: it used the second
C5_Witness ==
    /\ pc = "l_odom"
    /\ spin_msgs = <<Twist(0, 1, 5, 5, 5, 1), Twist(1, 0, 5, 5, 5, 0)>>
    /\ update_command = <<RInt(1), RInt(0), RInt(0)>>

\* no message was delivered in this cycle: the update used the command of an
\* earlier cycle
C5_StaleCommandUsed ==
    /\ pc = "l_odom"
    /\ spin_msgs = <<>>
    /\ last_delivered = <<Twist(0, 1, 5, 5, 5, 1)>>
    /\ update_command = <<RInt(0), RInt(1), RInt(1)>>

(***************************************************************************)
(* C6 as stated: every encoder is sampled and every driver is commanded    *)
(* only by the controller constructed with it, and no encoder or driver is *)
(* bound to two controllers.                                               *)
(***************************************************************************)
C6_ExclusiveOwnership ==
    /\ \A c \in Wheels :
          /\ enc_by[controller_encoder[c]] \subseteq {controller_M(c)}
          /\ drv_by[controller_driver[c]] \subseteq {controller_M(c)}
    /\ \A c, d \in Wheels :
          (c # d) => /\ controller_encoder[c] # controller_encoder[d]
                     /\ controller_driver[c] # controller_driver[d]

(***************************************************************************)
(* C7: the wheel order is one and the same: the k-th controller of the     *)
(* manager is controller_M(k-1), it gets the k-th wheel target and works   *)
(* on encoder_M(k-1) and driver_M(k-1); the joint_state message reports at *)
(* index i the angle and velocity of encoder_Mi; the names are in the      *)
(* order front-left, front-right, back-left, back-right.                   *)
(***************************************************************************)
C7_WheelIndexOrder ==
    /\ joint_names[0] = "wheel_front_left_joint"
    /\ joint_names[1] = "wheel_front_right_joint"
    /\ joint_names[2] = "wheel_back_left_joint"
    /\ joint_names[3] = "wheel_back_right_joint"
    /\ UpdateDone =>
          \A i \in Wheels :
              /\ motor_control_manager[i + 1] = i
              /\ target[i] = calculateWheelVelocity(update_command)[i + 1]
              /\ enc_by[i] = {controller_M(i)}
              /\ drv_by[i] = {controller_M(i)}
    /\ pc = "l_delay" =>
          \A i \in Wheels :
              /\ joint_state_msg.position[i] = enc[i][1]
              /\ joint_state_msg.velocity[i] = enc[i][2]

\* a cycle in which the four wheels read four different angles and velocities
C7_Witness ==
    /\ pc = "l_delay"
    /\ enc = [i \in Wheels |-> <<20 + i, 1 + i>>]
    /\ joint_state_msg.position = [i \in Wheels |-> 20 + i]
    /\ joint_state_msg.velocity = [i \in Wheels |-> 1 + i]
    /\ update_command = <<RInt(0), RInt(1), RInt(1)>>

(***************************************************************************)
(* C8 as stated: the elapsed time handed to pid_.update is the time since  *)
(* the previous pid_.update call (since the loop was entered, for the      *)
(* first call).                                                            *)
(***************************************************************************)
C8_PidPeriodIsElapsedTime == pid_calls => pid_args[3] = pid_elapsed

(***************************************************************************)
(* C10: every cycle of loop() calls robot_controller.update(), then        *)
(* publishes one odom message, then one joint_state message, and nothing   *)
(* else; the odom twist is the velocity the update left in                 *)
(* get_robot_velocity() and the joint_state positions and velocities are   *)
(* the angles and velocities of the four encoders as that update sampled   *)
(* them.                                                                   *)
(***************************************************************************)
C10_PublishOncePerCycle ==
    /\ pc \in {"l_sync", "l_spin", "l_update"} => cycle_log = <<>>
    /\ pc = "l_odom" => cycle_log = << <<"update">> >>
    /\ pc = "l_joint" => cycle_log = << <<"update">>, <<"odom", odom_msg>> >>
    /\ pc = "l_delay" =>
          /\ cycle_log = << <<"update">>, <<"odom", odom_msg>>,
                            <<"joint_state", joint_state_msg>> >>
          /\ \A i \in Wheels :
                /\ joint_state_msg.position[i] = enc[i][1]
                /\ joint_state_msg.velocity[i] = enc[i][2]
    /\ pc \in {"l_joint", "l_delay"} =>
          /\ odom_msg.twist = robot_velocity
          /\ update_calls = 1

\* the end of a cycle whose update measured a moving robot
C10_Witness ==
    /\ pc = "l_delay"
    /\ Len(cycle_log) = 3
    /\ robot_velocity = <<RNorm(3, 16), RInt(0), RNorm(3, 56)>>
    /\ cycle_log[2][2].twist = robot_velocity
    /\ cycle_log[3][2].position = [i \in Wheels |-> 20 + i]

(***************************************************************************)
(* C11 as stated: in the position test of setup() the target handed to     *)
(* pid_.update is the angle that starts at 0 and is increased by PI / 2    *)
(* each time more than 5000 ms have passed since the previous increase.    *)
(* Checked right after each pid_.update call, before the rotation check.   *)
(***************************************************************************)
C11_TargetFollowsWantedAngle == pc = "t_step" => pid_args[1] = wanted_angle

\* a pid_.update call after the first increase of wanted_angle
C11_CallAfterIncrease == pc = "t_step" /\ wanted_angle = 1 /\ pid_args[1] = PI

(***************************************************************************)
(* C12: the stamp.nanosec of every odom message loop() publishes is at     *)
(* least 0 and less than 10^9, also once micros() * 1000 has wrapped       *)
(* around 2^32.                                                            *)
(***************************************************************************)
C12_NanosecInRange ==
    /\ odom_msg.nanosec \in 0..(NANOS_PER_SEC - 1)
    /\ \A k \in 1..Len(cycle_log) :
          cycle_log[k][1] = "odom" =>
              cycle_log[k][2].nanosec \in 0..(NANOS_PER_SEC - 1)

\* an odom message published after a successful synchronisation and after the
\* wrap-around of micros() * 1000, whose 32-bit sum was 10^9 or more
C12_Witness ==
    /\ pc = "l_joint"
    /\ sync_clock > 0
    /\ micros >= 4294968
    /\ U32Less(U32Times(U32(micros), 1000), U32(NANOS_PER_SEC))
    /\ ~U32Less(U32Add(NanosLow32(synced_time_ns),
                       U32Sub(U32Times(U32(micros), 1000), last_time_sync_ns)),
                U32(NANOS_PER_SEC))
    /\ cycle_log[2][2].nanosec \in 0..(NANOS_PER_SEC - 1)

(***************************************************************************)
(* C13: setup() makes its initialisation calls in the order support, node, *)
(* odom publisher, joint_state publisher, cmd_vel subscription, executor,  *)
(* add subscription to executor.  A call is made only after every earlier  *)
(* one has returned RCL_RET_OK; a call that failed is made again, never    *)
(* skipped; and when the calls stop failing the sequence completes with    *)
(* all seven done.                                                         *)
(***************************************************************************)
C13_Order ==
    <<"rclc_support_init", "rclc_node_init_default", "odom_publisher",
      "joint_state_publisher", "cmd_vel_subscriber", "rclc_executor_init",
      "rclc_executor_add_subscription">>

C13_Done(k) == {C13_Order[j] : j \in 1..k}

\* the calls that have succeeded are the first k of the order; the call made
\* last is the k-th (it succeeded) or the k+1-st (it failed)
C13_InOrder ==
    /\ \E k \in 0..Len(C13_Order) :
          /\ init_ok = C13_Done(k)
          /\ \/ init_attempt = "" /\ k = 0
             \/ k >= 1 /\ init_attempt = C13_Order[k]
             \/ k < Len(C13_Order) /\ init_attempt = C13_Order[k + 1]
    /\ InitComplete => init_ok = C13_Done(Len(C13_Order))

\* every call made is the first of the order that has not yet succeeded
C13_NextCall ==
    pc = "init" =>
        \E k \in 1..Len(C13_Order) :
            /\ init_ok = C13_Done(k - 1)
            /\ init_attempt' = C13_Order[k]
            /\ init_ok' \in {init_ok, C13_Done(k)}

C13_InitSequence ==
    /\ []C13_InOrder
    /\ [][C13_NextCall]_vars
    /\ <>InitComplete

\* the executor is being initialised again after a failed call, the five
\* earlier calls done
C13_Witness ==
    /\ pc = "init"
    /\ init_attempt = "rclc_executor_init"
    /\ init_ok = C13_Done(5)
    /\ clock = (BOOT_DELAY_MS + RETRY_DELAY_MS) * 1000

(***************************************************************************)
(* C14: a cycle of loop() attempts a time synchronisation exactly when     *)
(* more than time_sync_interval milliseconds have passed since the last    *)
(* successful one (since boot, before the first); the four synchronisation *)
(* variables change only in a cycle whose attempt succeeded; and the cycle *)
(* after a failed attempt attempts again.                                  *)
(***************************************************************************)
C14_Elapsed == millis - sync_clock \div 1000

C14_SyncStep ==
    /\ pc = "l_sync" =>
          /\ sync_attempted' <=> (C14_Elapsed > time_sync_interval)
          /\ (sync_attempted /\ ~sync_ok) => sync_attempted'
    /\ <<synced_time_ms, synced_time_ns, last_time_sync_ms, last_time_sync_ns>>'
          # <<synced_time_ms, synced_time_ns, last_time_sync_ms, last_time_sync_ns>>
       => pc = "l_sync" /\ sync_attempted' /\ sync_ok'

C14_SyncWhenDue == [][C14_SyncStep]_vars

\* a synchronisation that succeeded in the cycle after a failed attempt
C14_Witness ==
    /\ pc = "l_spin"
    /\ sync_attempted /\ sync_ok
    /\ sync_clock = clock
    /\ millis >= BOOT_DELAY_MS + READY_DELAY_MS + timeout_ms
    /\ millis <= BOOT_DELAY_MS + READY_DELAY_MS + time_sync_interval

\* a cycle that made no attempt, the latest success being recent
C14_NotDue == pc = "l_spin" /\ ~sync_attempted /\ sync_clock > 0

(***************************************************************************)
(* C15: cmd_vel_subscription_callback runs only inside                     *)
(* rclc_executor_spin_some, which has returned before                      *)
(* robot_controller.update() starts: no callback runs between the start of *)
(* update() and the end of the cycle's odometry and publications, update() *)
(* and the odometry leave the stored command alone, and the command an     *)
(* update() works on is always the whole command of one message (or the    *)
(* initial zero command), never a mixture.                                 *)
(***************************************************************************)
C15_CallbackRan == Len(spin_msgs') > Len(spin_msgs)

C15_WholeCommands == {CommandOf(<<>>)} \cup {CommandOf(<<m>>) : m \in TwistMessages}

C15_Step ==
    /\ C15_CallbackRan =>
          /\ pc = "l_spin" /\ pc' = "l_spin"
          /\ UNCHANGED <<update_calls, update_command, robot_velocity, target,
                         motorVars, odom_msg, joint_state_msg, cycle_log>>
    /\ pc \in {"l_update", "l_odom", "l_joint"} =>
          UNCHANGED <<latest_command, last_delivered, spin_msgs>>
    /\ update_calls' > update_calls =>
          /\ update_command' = latest_command
          /\ update_command' \in C15_WholeCommands

C15_CallbackOnlyInSpin == [][C15_Step]_vars /\ [](update_command \in C15_WholeCommands)

\* a cycle in which the callback ran twice inside spin_some; the update and the
\* odometry that followed worked on the second command
C15_Witness ==
    /\ pc = "l_joint"
    /\ spin_msgs = <<Twist(1, 0, 5, 5, 5, 0), Twist(0, 1, 5, 5, 5, 1)>>
    /\ update_command = <<RInt(0), RInt(1), RInt(1)>>
    /\ latest_command = update_command

(***************************************************************************)
(* C16 as stated: the dt a cycle of loop() integrates the pose over never  *)
(* includes time before the first call of loop(): it is at most the time   *)
(* that has passed since that call.  Checked right after the odometry of   *)
(* each cycle.                                                             *)
(***************************************************************************)
C16_DtExcludesStartUp == pc = "l_joint" => dt * 1000 <= clock - LoopEntryClock

\* the odometry of the first cycle, with a moving robot measured
C16_FirstCycleMoving ==
    /\ pc = "l_joint"
    /\ dt * 1000 = clock
    /\ robot_velocity # Zero3

(***************************************************************************)
(* C17 as stated: the stamp.nanosec of the odom message of a cycle is the  *)
(* sub-second part of the synchronised time: synced_time_ns plus the       *)
(* nanoseconds that have passed since the last successful synchronisation  *)
(* (since boot, before the first), modulo 10^9.  The sum is taken modulo   *)
(* 10^9 term by term: 10^6 microseconds are 10^9 nanoseconds.              *)
(***************************************************************************)
C17_TrueNanosec ==
    (synced_time_ns[2] + ((clock - sync_clock) % 1000000) * 1000) % NANOS_PER_SEC

C17_NanosecIsSubSecond == pc = "l_joint" => odom_msg.nanosec = C17_TrueNanosec

\* the stamp of a cycle that synchronised successfully: no time has passed
\* since, and the stamp differs from the sub-second part of synced_time_ns
C17_WrongRightAfterSync ==
    /\ pc = "l_joint"
    /\ sync_ok /\ sync_clock = clock
    /\ odom_msg.nanosec # synced_time_ns[2]

====
